---- MODULE Spec2Model ----
(***************************************************************************)
(* The Monte Carlo estimator of Gummy_Bears.ipynb ("Helper functions"      *)
(* cell): generate_gummy_bear_package_sample, get_num_unique_gummy_bear_   *)
(* types, generate_samples, run_single_trial, run_trials, print_estimates. *)
(*                                                                         *)
(* One behaviour is one top-level call.  entry names the function called:  *)
(*   "run_trials"        run_trials(num_trials, num_samples, n, m)         *)
(*   "run_single_trial"  run_single_trial(num_samples, n, m, print_results)*)
(*   "get_num_unique"    get_num_unique_gummy_bear_types(package), called  *)
(*                       twice in a row on one list object                 *)
(* pc is the position of the interpreter.  Every random.randrange call is  *)
(* a nondeterministic choice over its range.  An estimate k/num_samples is *)
(* the record [num |-> k, den |-> num_samples].                            *)
(***************************************************************************)
EXTENDS Integers, Sequences, FiniteSets

\* Bounds of the model: the largest argument values explored.
MaxTrials == 2
MaxSamples == 2
MaxSize == 3
MaxTypes == 3

\* Bounds of the specification that records the drawn values.
MaxLogSamples == 2
MaxLogSize == 2
MaxLogTypes == 2

\* '.8f' of the f-strings: eight decimals, i.e. units of 10^-8.
Scale == 100000000

VARIABLES
  entry,          \* which function the notebook cell calls
  num_trials, num_samples, package_size, num_types, print_results, \* arguments
  pc,             \* position of the interpreter
  err,            \* the exception that left the top-level call, or "none"
  i,              \* run_trials: the loop index of "for i in range(num_trials)"
  estimates,      \* run_trials: the list being built
  samples,        \* generate_samples / run_single_trial: distinct counts so far
  package,        \* the list generate_gummy_bear_package_sample builds/returned
  num_packages_with_all_types,  \* run_single_trial local (-1: unbound)
  estimated_probability,        \* run_single_trial local (NoEstimate: unbound)
  result,         \* value returned by the last run_single_trial call
  mean,           \* print_estimates: value of statistics.mean(estimates)
  ret,            \* value returned by run_trials
  console,        \* lines printed so far
  count1, count2, \* get_num_unique entry: results of the two calls (-1: none)
  calls,          \* history: number of run_single_trial invocations
  trial_log,      \* history: estimates returned by run_single_trial, in order
  full_count,     \* history: packages of this trial holding every type
  draws,          \* history: number of random.randrange calls
  logging,        \* history: whether the drawn values are recorded
  draw_log        \* history: the values drawn, in order (when logging)

vars == <<entry, num_trials, num_samples, package_size, num_types, print_results,
          pc, err, i, estimates, samples, package, num_packages_with_all_types,
          estimated_probability, result, mean, ret, console, count1, count2,
          calls, trial_log, full_count, draws, logging, draw_log>>

args == <<entry, num_trials, num_samples, package_size, num_types, print_results,
          logging>>

NoEstimate == [num |-> 0 - 1, den |-> 0]

(***************************************************************************)
(* Pure functions                                                          *)
(***************************************************************************)

\* Variant: random.randint(0, n), whose upper end is inclusive.
randrange_inclusive(n) == 0 .. n

\* Variant: random.randrange(n - 1), one type short.
randrange_short(n) == 0 .. (n - 2)

\* random.randrange(n): the values it can return; empty for n = 0, where
\* the call raises ValueError.
randrange(n) == 0 .. (n - 1)

\* Variant: the accumulation starts at index 1 and misses the first element.
SetOfListSkipFirst(xs) == {xs[k] : k \in 2 .. Len(xs)}

\* set(xs): the list accumulated into a set, element by element.
RECURSIVE SetOfList(_)
SetOfList(xs) ==
  IF xs = <<>> THEN {} ELSE SetOfList(SubSeq(xs, 1, Len(xs) - 1)) \cup {xs[Len(xs)]}

\* Variant: len(gummy_bear_package), the set() forgotten.
get_num_unique_no_set(gummy_bear_package) == Len(gummy_bear_package)

\* len(set(gummy_bear_package))
get_num_unique_gummy_bear_types(gummy_bear_package) ==
  Cardinality(SetOfList(gummy_bear_package))

\* Variant: len(samples), the filter forgotten.
CountAll(ss, m) == Len(ss)

\* Variant: sum([s for s in samples if s == num_types]), sum for len.
RECURSIVE SumEqual(_, _)
SumEqual(ss, m) ==
  IF ss = <<>> THEN 0
  ELSE SumEqual(Tail(ss), m) + (IF Head(ss) = m THEN Head(ss) ELSE 0)

\* Variant: len([s for s in samples if s <= num_types]), <= for ==.
RECURSIVE CountAtMost(_, _)
CountAtMost(ss, m) ==
  IF ss = <<>> THEN 0
  ELSE CountAtMost(Tail(ss), m) + (IF Head(ss) <= m THEN 1 ELSE 0)

\* len([s for s in samples if s == num_types])
RECURSIVE CountEqual(_, _)
CountEqual(ss, m) ==
  IF ss = <<>> THEN 0
  ELSE CountEqual(Tail(ss), m) + (IF Head(ss) = m THEN 1 ELSE 0)

\* num_packages_with_all_types/num_samples, for num_samples # 0
Divide(k, n) == [num |-> k, den |-> n]

\* sum of the numerators of estimates that share one denominator
RECURSIVE SumNum(_)
SumNum(es) == IF es = <<>> THEN 0 ELSE Head(es).num + SumNum(Tail(es))

\* Variant: the last estimate is left out of the sum.
mean_drop_last(es) ==
  [num |-> SumNum(SubSeq(es, 1, Len(es) - 1)), den |-> es[1].den * Len(es)]

\* statistics.mean(estimates), for a non-empty list: exact sum / len.
\* Every estimate of one batch has the denominator num_samples.
statistics_mean(es) == [num |-> SumNum(es), den |-> es[1].den * Len(es)]

\* f'{e:.8f}': e rounded to the nearest multiple of 10^-8, in units of 10^-8.
Fmt8(e) ==
  LET whole == e.num \div e.den
      rest  == (e.num % e.den) * Scale
      q     == rest \div e.den
      r     == rest % e.den
  IN  whole * Scale + q + (IF 2 * r >= e.den THEN 1 ELSE 0)

\* [f'{e:.8f}' for e in estimates]
FmtAll(es) == [k \in 1 .. Len(es) |-> Fmt8(es[k])]

\* History only: the package holds at least one bear of every type.
HasAllTypes(pkg, m) == \A t \in 0 .. (m - 1) : \E k \in 1 .. Len(pkg) : pkg[k] = t

Packages(n, m) == [1 .. n -> 0 .. (m - 1)]

(***************************************************************************)
(* Initial states: one per top-level call and argument tuple               *)
(***************************************************************************)

InitLocals ==
  /\ err = "none"
  /\ i = 0
  /\ estimates = <<>>
  /\ samples = <<>>
  /\ num_packages_with_all_types = 0 - 1
  /\ estimated_probability = NoEstimate
  /\ result = NoEstimate
  /\ mean = NoEstimate
  /\ ret = <<>>
  /\ console = <<>>
  /\ count1 = 0 - 1
  /\ count2 = 0 - 1
  /\ calls = 0
  /\ trial_log = <<>>
  /\ full_count = 0
  /\ draws = 0
  /\ draw_log = <<>>

Init ==
  /\ entry \in {"run_trials", "run_single_trial", "get_num_unique"}
  /\ logging = FALSE
  /\ num_samples \in 0 .. MaxSamples
  /\ package_size \in 0 .. MaxSize
  /\ num_types \in 0 .. MaxTypes
  /\ \/ /\ entry = "run_trials"
        /\ num_trials \in 0 .. MaxTrials
        /\ print_results = FALSE
        /\ pc = "rt_start"
        /\ package = <<>>
     \/ /\ entry = "run_single_trial"
        /\ num_trials = 0
        /\ print_results \in BOOLEAN
        /\ pc = "rst_call"
        /\ package = <<>>
     \/ /\ entry = "get_num_unique"
        /\ num_trials = 0
        /\ num_samples = 0
        /\ print_results = FALSE
        /\ pc = "gnu_first"
        /\ package \in Packages(package_size, num_types)
  /\ InitLocals

(***************************************************************************)
(* run_trials                                                              *)
(***************************************************************************)

\* start = time.time(); estimates = []
rt_start ==
  /\ pc = "rt_start"
  /\ estimates' = <<>>
  /\ i' = 0
  /\ pc' = "rt_loop"
  /\ UNCHANGED <<args, err, samples, package, num_packages_with_all_types,
                 estimated_probability, result, mean, ret, console, count1,
                 count2, calls, trial_log, full_count, draws, draw_log>>

\* for i in range(num_trials): the next trial, or the end of the loop
rt_loop ==
  /\ pc = "rt_loop"
  /\ pc' = IF i < num_trials THEN "rst_call" ELSE "pe_header"
  /\ UNCHANGED <<args, err, i, estimates, samples, package,
                 num_packages_with_all_types, estimated_probability, result,
                 mean, ret, console, count1, count2, calls, trial_log,
                 full_count, draws, draw_log>>

\* Variant: estimates.insert(0, ...), newest first.
rt_prepend ==
  /\ pc = "rt_append"
  /\ estimates' = <<result>> \o estimates
  /\ i' = i + 1
  /\ pc' = "rt_loop"
  /\ UNCHANGED <<args, err, samples, package, num_packages_with_all_types,
                 estimated_probability, result, mean, ret, console, count1,
                 count2, calls, trial_log, full_count, draws, draw_log>>

\* Variant: estimates = [...], the list rebound instead of appended to.
rt_overwrite ==
  /\ pc = "rt_append"
  /\ estimates' = <<result>>
  /\ i' = i + 1
  /\ pc' = "rt_loop"
  /\ UNCHANGED <<args, err, samples, package, num_packages_with_all_types,
                 estimated_probability, result, mean, ret, console, count1,
                 count2, calls, trial_log, full_count, draws, draw_log>>

\* estimates.append(<value returned by run_single_trial>)
rt_append ==
  /\ pc = "rt_append"
  /\ estimates' = Append(estimates, result)
  /\ i' = i + 1
  /\ pc' = "rt_loop"
  /\ UNCHANGED <<args, err, samples, package, num_packages_with_all_types,
                 estimated_probability, result, mean, ret, console, count1,
                 count2, calls, trial_log, full_count, draws, draw_log>>

\* print(f'Time taken: ...')
rt_time ==
  /\ pc = "rt_time"
  /\ console' = Append(console, <<"time">>)
  /\ pc' = "rt_return"
  /\ UNCHANGED <<args, err, i, estimates, samples, package,
                 num_packages_with_all_types, estimated_probability, result,
                 mean, ret, count1, count2, calls, trial_log, full_count, draws, draw_log>>

\* return estimates
rt_return ==
  /\ pc = "rt_return"
  /\ ret' = estimates
  /\ pc' = "done"
  /\ UNCHANGED <<args, err, i, estimates, samples, package,
                 num_packages_with_all_types, estimated_probability, result,
                 mean, console, count1, count2, calls, trial_log, full_count,
                 draws, draw_log>>

(***************************************************************************)
(* run_single_trial, generate_samples, generate_gummy_bear_package_sample  *)
(***************************************************************************)

\* run_single_trial is entered: a fresh frame; generate_samples starts
rst_call ==
  /\ pc = "rst_call"
  /\ calls' = calls + 1
  /\ samples' = <<>>
  /\ full_count' = 0
  /\ pc' = "gs_loop"
  /\ UNCHANGED <<args, err, i, estimates, package, num_packages_with_all_types,
                 estimated_probability, result, mean, ret, console, count1,
                 count2, trial_log, draws, draw_log>>

\* generate_samples: "for i in range(num_samples)": the next sample calls
\* generate_gummy_bear_package_sample (a new list), or the list is complete
gs_loop ==
  /\ pc = "gs_loop"
  /\ IF Len(samples) < num_samples
       THEN /\ package' = <<>>
            /\ pc' = "pkg_loop"
       ELSE /\ package' = package
            /\ pc' = "rst_count"
  /\ UNCHANGED <<args, err, i, estimates, samples, num_packages_with_all_types,
                 estimated_probability, result, mean, ret, console, count1,
                 count2, calls, trial_log, full_count, draws, draw_log>>

\* Variant: a draw that comes up with the value just drawn is drawn again.
pkg_draw_redraw ==
  /\ pc = "pkg_loop"
  /\ Len(package) < package_size
  /\ \E d \in randrange(num_types) :
       /\ package' = Append(package, d)
       /\ draw_log' = IF logging THEN Append(draw_log, d) ELSE draw_log
       /\ draws' = draws + (IF package # <<>> /\ package[Len(package)] = d
                             THEN 2 ELSE 1)
  /\ UNCHANGED <<args, pc, err, i, estimates, samples,
                 num_packages_with_all_types, estimated_probability, result,
                 mean, ret, console, count1, count2, calls, trial_log,
                 full_count>>

\* one random.randrange(num_types) of "for i in range(package_size)"
pkg_draw ==
  /\ pc = "pkg_loop"
  /\ Len(package) < package_size
  /\ \E d \in randrange(num_types) :
       /\ package' = Append(package, d)
       /\ draw_log' = IF logging THEN Append(draw_log, d) ELSE draw_log
  /\ draws' = draws + 1
  /\ UNCHANGED <<args, pc, err, i, estimates, samples,
                 num_packages_with_all_types, estimated_probability, result,
                 mean, ret, console, count1, count2, calls, trial_log,
                 full_count>>

\* random.randrange(0) raises ValueError; nothing catches it
pkg_draw_raise ==
  /\ pc = "pkg_loop"
  /\ Len(package) < package_size
  /\ randrange(num_types) = {}
  /\ err' = "ValueError"
  /\ pc' = "raised"
  /\ UNCHANGED <<args, i, estimates, samples, package,
                 num_packages_with_all_types, estimated_probability, result,
                 mean, ret, console, count1, count2, calls, trial_log,
                 full_count, draws, draw_log>>

\* Variant: the finished list is set aside unreduced and the next package
\* is started (the reduction deferred, as with a lazy map).
pkg_return_deferred ==
  /\ pc = "pkg_loop"
  /\ Len(package) >= package_size
  /\ pc' = "gs_loop"
  /\ UNCHANGED <<args, err, i, estimates, samples, package,
                 num_packages_with_all_types, estimated_probability, result,
                 mean, ret, console, count1, count2, calls, trial_log,
                 full_count, draws, draw_log>>

\* generate_gummy_bear_package_sample returns the finished list
pkg_return ==
  /\ pc = "pkg_loop"
  /\ Len(package) >= package_size
  /\ pc' = "gs_reduce"
  /\ UNCHANGED <<args, err, i, estimates, samples, package,
                 num_packages_with_all_types, estimated_probability, result,
                 mean, ret, console, count1, count2, calls, trial_log,
                 full_count, draws, draw_log>>

\* get_num_unique_gummy_bear_types(<the package>) becomes the next sample
gs_reduce ==
  /\ pc = "gs_reduce"
  /\ samples' = Append(samples, get_num_unique_gummy_bear_types(package))
  /\ full_count' = full_count + (IF HasAllTypes(package, num_types) THEN 1 ELSE 0)
  /\ pc' = "gs_loop"
  /\ UNCHANGED <<args, err, i, estimates, package, num_packages_with_all_types,
                 estimated_probability, result, mean, ret, console, count1,
                 count2, calls, trial_log, draws, draw_log>>

\* num_packages_with_all_types = len([s for s in samples if s == num_types])
rst_count ==
  /\ pc = "rst_count"
  /\ num_packages_with_all_types' = CountEqual(samples, num_types)
  /\ pc' = "rst_divide"
  /\ UNCHANGED <<args, err, i, estimates, samples, package,
                 estimated_probability, result, mean, ret, console, count1,
                 count2, calls, trial_log, full_count, draws, draw_log>>

\* estimated_probability = num_packages_with_all_types/num_samples
rst_divide ==
  /\ pc = "rst_divide"
  /\ num_samples # 0
  /\ estimated_probability' = Divide(num_packages_with_all_types, num_samples)
  /\ pc' = "rst_print"
  /\ UNCHANGED <<args, err, i, estimates, samples, package,
                 num_packages_with_all_types, result, mean, ret, console,
                 count1, count2, calls, trial_log, full_count, draws, draw_log>>

\* Variant: run_trials catches the error and goes on with the next trial.
rst_divide_caught ==
  /\ pc = "rst_divide"
  /\ num_samples = 0
  /\ i' = i + 1
  /\ samples' = <<>>
  /\ package' = <<>>
  /\ num_packages_with_all_types' = 0 - 1
  /\ pc' = "rt_loop"
  /\ UNCHANGED <<args, err, estimates, estimated_probability, result, mean,
                 ret, console, count1, count2, calls, trial_log, full_count,
                 draws, draw_log>>

\* ... /0 raises ZeroDivisionError; nothing catches it
rst_divide_raise ==
  /\ pc = "rst_divide"
  /\ num_samples = 0
  /\ err' = "ZeroDivisionError"
  /\ pc' = "raised"
  /\ UNCHANGED <<args, i, estimates, samples, package,
                 num_packages_with_all_types, estimated_probability, result,
                 mean, ret, console, count1, count2, calls, trial_log,
                 full_count, draws, draw_log>>

\* Variant: the summary line is printed whatever print_results is.
rst_print_always ==
  /\ pc = "rst_print"
  /\ console' = Append(console, <<"trial", num_samples,
                                  num_packages_with_all_types,
                                  Fmt8(estimated_probability)>>)
  /\ pc' = "rst_return"
  /\ UNCHANGED <<args, err, i, estimates, samples, package,
                 num_packages_with_all_types, estimated_probability, result,
                 mean, ret, count1, count2, calls, trial_log, full_count, draws, draw_log>>

\* if print_results: print(f'Out of {num_samples} samples ...')
rst_print ==
  /\ pc = "rst_print"
  /\ console' = IF print_results
                  THEN Append(console, <<"trial", num_samples,
                                         num_packages_with_all_types,
                                         Fmt8(estimated_probability)>>)
                  ELSE console
  /\ pc' = "rst_return"
  /\ UNCHANGED <<args, err, i, estimates, samples, package,
                 num_packages_with_all_types, estimated_probability, result,
                 mean, ret, count1, count2, calls, trial_log, full_count, draws, draw_log>>

\* Variant: "return" indented under "if print_results:", so that the
\* quiet call falls off the end of the function and returns no estimate.
rst_return_if_verbose ==
  /\ pc = "rst_return"
  /\ result' = IF print_results THEN estimated_probability ELSE NoEstimate
  /\ trial_log' = Append(trial_log, result')
  /\ samples' = <<>>
  /\ package' = <<>>
  /\ num_packages_with_all_types' = 0 - 1
  /\ estimated_probability' = NoEstimate
  /\ pc' = IF entry = "run_trials" THEN "rt_append" ELSE "done"
  /\ UNCHANGED <<args, err, i, estimates, mean, ret, console, count1, count2,
                 calls, full_count, draws, draw_log>>

\* return estimated_probability: the frame and its locals are gone
rst_return ==
  /\ pc = "rst_return"
  /\ result' = estimated_probability
  /\ trial_log' = Append(trial_log, estimated_probability)
  /\ samples' = <<>>
  /\ package' = <<>>
  /\ num_packages_with_all_types' = 0 - 1
  /\ estimated_probability' = NoEstimate
  /\ pc' = IF entry = "run_trials" THEN "rt_append" ELSE "done"
  /\ UNCHANGED <<args, err, i, estimates, mean, ret, console, count1, count2,
                 calls, full_count, draws, draw_log>>

(***************************************************************************)
(* print_estimates                                                         *)
(***************************************************************************)

\* print(f'Results for n={n}, m={m}')
pe_header ==
  /\ pc = "pe_header"
  /\ console' = Append(console, <<"header", package_size, num_types>>)
  /\ pc' = "pe_list"
  /\ UNCHANGED <<args, err, i, estimates, samples, package,
                 num_packages_with_all_types, estimated_probability, result,
                 mean, ret, count1, count2, calls, trial_log, full_count, draws, draw_log>>

\* print([f'{e:.8f}' for e in estimates])
pe_list ==
  /\ pc = "pe_list"
  /\ console' = Append(console, <<"list", FmtAll(estimates)>>)
  /\ pc' = "pe_mean"
  /\ UNCHANGED <<args, err, i, estimates, samples, package,
                 num_packages_with_all_types, estimated_probability, result,
                 mean, ret, count1, count2, calls, trial_log, full_count, draws, draw_log>>

\* print(f'mean: {statistics.mean(estimates):.8f}'), estimates not empty
pe_mean ==
  /\ pc = "pe_mean"
  /\ estimates # <<>>
  /\ mean' = statistics_mean(estimates)
  /\ console' = Append(console, <<"mean", Fmt8(mean')>>)
  /\ pc' = "rt_time"
  /\ UNCHANGED <<args, err, i, estimates, samples, package,
                 num_packages_with_all_types, estimated_probability, result,
                 ret, count1, count2, calls, trial_log, full_count, draws, draw_log>>

\* Variant: print_estimates skips the mean of an empty list.
pe_mean_skip ==
  /\ pc = "pe_mean"
  /\ estimates = <<>>
  /\ pc' = "rt_time"
  /\ UNCHANGED <<args, err, i, estimates, samples, package,
                 num_packages_with_all_types, estimated_probability, result,
                 mean, ret, console, count1, count2, calls, trial_log,
                 full_count, draws, draw_log>>

\* statistics.mean([]) raises StatisticsError; nothing catches it
pe_mean_raise ==
  /\ pc = "pe_mean"
  /\ estimates = <<>>
  /\ err' = "StatisticsError"
  /\ pc' = "raised"
  /\ UNCHANGED <<args, i, estimates, samples, package,
                 num_packages_with_all_types, estimated_probability, result,
                 mean, ret, console, count1, count2, calls, trial_log,
                 full_count, draws, draw_log>>

(***************************************************************************)
(* get_num_unique_gummy_bear_types called twice on one list                *)
(***************************************************************************)

\* Variant: the list is emptied while it is counted (pop until empty).
gnu_first_popping ==
  /\ pc = "gnu_first"
  /\ count1' = get_num_unique_gummy_bear_types(package)
  /\ package' = <<>>
  /\ pc' = "gnu_second"
  /\ UNCHANGED <<args, err, i, estimates, samples,
                 num_packages_with_all_types, estimated_probability, result,
                 mean, ret, console, count2, calls, trial_log, full_count,
                 draws, draw_log>>

gnu_first ==
  /\ pc = "gnu_first"
  /\ count1' = get_num_unique_gummy_bear_types(package)
  /\ pc' = "gnu_second"
  /\ UNCHANGED <<args, err, i, estimates, samples, package,
                 num_packages_with_all_types, estimated_probability, result,
                 mean, ret, console, count2, calls, trial_log, full_count,
                 draws, draw_log>>

gnu_second ==
  /\ pc = "gnu_second"
  /\ count2' = get_num_unique_gummy_bear_types(package)
  /\ pc' = "done"
  /\ UNCHANGED <<args, err, i, estimates, samples, package,
                 num_packages_with_all_types, estimated_probability, result,
                 mean, ret, console, count1, calls, trial_log, full_count,
                 draws, draw_log>>

Next ==
  \/ rt_start \/ rt_loop \/ rt_append \/ rt_time \/ rt_return
  \/ rst_call \/ gs_loop \/ pkg_draw \/ pkg_draw_raise \/ pkg_return
  \/ gs_reduce \/ rst_count \/ rst_divide \/ rst_divide_raise \/ rst_print
  \/ rst_return
  \/ pe_header \/ pe_list \/ pe_mean \/ pe_mean_raise
  \/ gnu_first \/ gnu_second

Spec == Init /\ [][Next]_vars

\* The interpreter is one thread that always takes its next step.
FairSpec == Spec /\ WF_vars(Next)

(***************************************************************************)
(* run_single_trial alone, with the drawn values recorded, so that calls   *)
(* that differ in print_results can be compared on the same draws          *)
(***************************************************************************)

InitLogged ==
  /\ entry = "run_single_trial"
  /\ logging = TRUE
  /\ num_trials = 0
  /\ num_samples \in 0 .. MaxLogSamples
  /\ package_size \in 0 .. MaxLogSize
  /\ num_types \in 0 .. MaxLogTypes
  /\ print_results \in BOOLEAN
  /\ pc = "rst_call"
  /\ package = <<>>
  /\ InitLocals

NextLogged ==
  \/ rst_call \/ gs_loop \/ pkg_draw \/ pkg_draw_raise \/ pkg_return
  \/ gs_reduce \/ rst_count \/ rst_divide \/ rst_divide_raise \/ rst_print
  \/ rst_return

LoggedSpec == InitLogged /\ [][NextLogged]_vars

(***************************************************************************)
(* Properties                                                              *)
(***************************************************************************)

Positive == num_samples >= 1 /\ package_size >= 1 /\ num_types >= 1

\* The number of distinct values of a list: its first occurrences.
DistinctCount(p) ==
  Cardinality({k \in 1 .. Len(p) : \A j \in 1 .. (k - 1) : p[j] # p[k]})

\* C1: for package_size >= 1 and num_types >= 1, whatever the draws, the
\* package generate_gummy_bear_package_sample returns has length exactly
\* package_size and every element is an integer in [0, num_types - 1].
C1_PackageShape ==
  (pc = "gs_reduce" /\ package_size >= 1 /\ num_types >= 1)
    => /\ Len(package) = package_size
       /\ \A k \in 1 .. Len(package) : package[k] \in 0 .. (num_types - 1)

C1_Witness ==
  /\ pc = "gs_reduce"
  /\ package_size >= 2
  /\ num_types >= 2
  /\ package[1] = num_types - 1
  /\ package[2] = 0

\* C2: for num_samples >= 1 the estimate run_single_trial computes and
\* returns is (number of this trial's packages that hold every one of the
\* num_types types) / num_samples: each such package counted once, no other
\* package counted.
C2_Fraction ==
  /\ (pc \in {"rst_print", "rst_return"} /\ num_samples >= 1)
       => /\ Len(samples) = num_samples
          /\ estimated_probability = [num |-> full_count, den |-> num_samples]
  /\ (pc \in {"rt_append", "done"} /\ entry # "get_num_unique")
       => /\ num_samples >= 1
          /\ result = [num |-> full_count, den |-> num_samples]

C2_Witness ==
  /\ pc = "rst_return"
  /\ num_samples >= 2
  /\ full_count = 1
  /\ estimated_probability.num = 1

\* C3: for positive num_samples, package_size and num_types the value
\* run_single_trial returns is k/num_samples for an integer k with
\* 0 <= k <= num_samples, so it lies in [0, 1].
C3_UnitInterval ==
  Positive =>
    \A e \in ({estimated_probability, result} \cup {trial_log[k] : k \in 1 .. Len(trial_log)})
             \ {NoEstimate} :
      /\ e.den = num_samples
      /\ 0 <= e.num
      /\ e.num <= e.den

C3_Witness ==
  /\ Positive
  /\ pc = "rt_append"
  /\ result.num >= 1
  /\ result.num < result.den

\* C4: for package_size >= 1 and num_types >= 1 every sample statistic is an
\* integer in [1, num_types], and it is the number of distinct values of the
\* package it was computed from.
C4_Statistic ==
  /\ (package_size >= 1 /\ num_types >= 1)
       => \A k \in 1 .. Len(samples) : samples[k] \in 1 .. num_types
  /\ (pc = "gs_loop" /\ samples # <<>>)
       => samples[Len(samples)] = DistinctCount(package)
  /\ (entry = "get_num_unique" /\ pc = "done")
       => /\ count1 = DistinctCount(package)
          /\ (package_size >= 1 /\ num_types >= 1) => count1 \in 1 .. num_types

C4_Witness ==
  /\ pc = "gs_loop"
  /\ samples # <<>>
  /\ Len(package) >= 3
  /\ samples[Len(samples)] = 2

\* C5: run_trials invokes run_single_trial at most num_trials times, and
\* when it returns it has invoked it exactly num_trials times and returns a
\* list of length num_trials whose i-th element is the estimate the i-th
\* invocation returned.
C5_OnePerTrial ==
  entry = "run_trials" =>
    /\ calls <= num_trials
    /\ pc = "done" => /\ calls = num_trials
                      /\ Len(ret) = num_trials
                      /\ ret = trial_log

C5_Witness ==
  /\ entry = "run_trials"
  /\ pc = "done"
  /\ num_trials >= 2
  /\ ret[1] # ret[2]

\* Sum of the numerators of a list of estimates, from the last to the first.
RECURSIVE NumSum(_, _)
NumSum(es, k) == IF k = 0 THEN 0 ELSE es[k].num + NumSum(es, k - 1)

\* C6: the mean print_estimates reports for a batch is the arithmetic mean
\* (sum / num_trials) of exactly the list run_trials returns; the printed
\* line shows it to the nearest 10^-8.
C6_Mean ==
  (entry = "run_trials" /\ pc = "done") =>
    /\ Len(ret) = num_trials
    /\ \A k \in 1 .. Len(ret) : ret[k].den = num_samples
    /\ mean.den > 0
    /\ mean.num * (num_samples * num_trials) = NumSum(ret, Len(ret)) * mean.den
    /\ console[3][1] = "mean"
    /\ LET d == console[3][2] * mean.den - mean.num * Scale
       IN  2 * d <= mean.den /\ 0 - 2 * d <= mean.den

C6_Witness ==
  /\ entry = "run_trials"
  /\ pc = "done"
  /\ num_trials >= 2
  /\ ret[1].num # ret[2].num
  /\ ret[2].num # 0

\* C7 as stated, for a batch that has a first trial: with num_samples = 0
\* or num_types = 0, run_trials never returns, prints nothing, and runs no
\* trial beyond the first.
C7_AsStated ==
  (entry = "run_trials" /\ num_trials >= 1 /\ (num_samples = 0 \/ num_types = 0))
    => /\ pc # "done"
       /\ console = <<>>
       /\ calls <= 1

C7_Degenerate ==
  /\ entry = "run_trials"
  /\ num_trials >= 1
  /\ num_samples = 0 \/ (num_types = 0 /\ package_size >= 1)

C7_NoRecovery ==
  C7_Degenerate =>
    /\ pc # "done"
    /\ console = <<>>
    /\ estimates = <<>>
    /\ trial_log = <<>>
    /\ ret = <<>>
    /\ calls <= 1
    /\ pc = "raised"
         => /\ calls = 1
            /\ err = IF num_samples = 0 THEN "ZeroDivisionError" ELSE "ValueError"

\* C7 (amended): with num_trials >= 1 and either num_samples = 0, or
\* num_types = 0 with package_size >= 1, the first run_single_trial call
\* raises (ZeroDivisionError for num_samples = 0, else ValueError from
\* random.randrange(0)) and the exception leaves run_trials: no later trial
\* is attempted, no estimate is collected, nothing is returned and nothing
\* is printed.
C7_FailsAtFirstTrial ==
  /\ [](C7_NoRecovery)
  /\ C7_Degenerate => <>(pc = "raised")

C7_Witness ==
  /\ C7_Degenerate
  /\ num_trials >= 2
  /\ num_samples >= 1
  /\ pc = "raised"
  /\ err = "ValueError"

\* C8: for positive num_trials, num_samples, package_size and num_types
\* (package_size < num_types included), whatever the draws, run_trials
\* raises nothing, terminates and returns its list of estimates.
C8_PositiveBatch == entry = "run_trials" /\ num_trials >= 1 /\ Positive

C8_AlwaysSucceeds ==
  /\ [](C8_PositiveBatch => (pc # "raised" /\ err = "none"))
  /\ C8_PositiveBatch => <>(pc = "done" /\ Len(ret) = num_trials)

C8_Witness ==
  /\ C8_PositiveBatch
  /\ num_trials >= 2
  /\ package_size < num_types
  /\ pc = "done"
  /\ Len(ret) = num_trials

\* C9: with package_size = num_types = 1 and num_samples >= 1 every value
\* run_single_trial returns is num_samples/num_samples, i.e. exactly 1.0.
C9_AllOnes ==
  (package_size = 1 /\ num_types = 1 /\ num_samples >= 1 /\ entry # "get_num_unique")
    => /\ \A e \in ({result} \cup {trial_log[k] : k \in 1 .. Len(trial_log)}) \ {NoEstimate} :
            e.num = e.den /\ e.den = num_samples
       /\ err \notin {"ValueError", "ZeroDivisionError"}

C9_Witness ==
  /\ package_size = 1
  /\ num_types = 1
  /\ num_samples >= 2
  /\ entry = "run_single_trial"
  /\ pc = "done"
  /\ result.num = num_samples

\* C10: two calls of get_num_unique_gummy_bear_types on the same list give
\* the same number, and a call leaves the list (length, elements, order) as
\* it was.
C10_Pure ==
  /\ []((entry = "get_num_unique" /\ pc = "done") => count1 = count2)
  /\ [][(pc \in {"gnu_first", "gnu_second", "gs_reduce"}) => package' = package]_vars

C10_Witness ==
  /\ entry = "get_num_unique"
  /\ pc = "done"
  /\ Len(package) >= 3
  /\ count1 = 2
  /\ count2 = 2

\* The packages generate_gummy_bear_package_sample(n, m) can return: every
\* draw is one of random.randrange(m), each with equal probability, so the
\* packages are equally likely.
Outcomes(n, m) == [1 .. n -> randrange(m)]

\* The packages a trial counts: their sample passes "s == num_types".
Counted(n, m) ==
  {p \in Outcomes(n, m) :
     CountEqual(<<get_num_unique_gummy_bear_types(p)>>, m) = 1}

RECURSIVE Factorial(_)
Factorial(m) == IF m <= 1 THEN 1 ELSE m * Factorial(m - 1)

RECURSIVE Power(_, _)
Power(m, n) == IF n = 0 THEN 1 ELSE m * Power(m, n - 1)

TrialDone == entry = "run_single_trial" /\ pc = "done"

\* C11: for package_size = num_types = m >= 1 the package generator has m^m
\* equally likely packages and a trial counts exactly m! of them, so the
\* expected estimate of run_single_trial is m!/m^m.
C11_FactorialOverPower ==
  (TrialDone /\ package_size = num_types /\ num_types >= 1)
    => /\ Cardinality(Outcomes(package_size, num_types)) = Power(num_types, num_types)
       /\ Cardinality(Counted(package_size, num_types)) = Factorial(num_types)

C11_Witness ==
  /\ TrialDone
  /\ package_size = num_types
  /\ num_types >= 3
  /\ result.num >= 1
  /\ result.num < result.den

\* C12 as stated: for every num_types >= 1 and package_size >= num_types,
\* every larger package size has a strictly greater expected estimate
\* (counted packages / all packages).
C12_AsStated ==
  (TrialDone /\ num_types >= 1 /\ package_size >= num_types)
    => \A n2 \in (package_size + 1) .. (MaxSize + 1) :
         Cardinality(Counted(n2, num_types)) * Power(num_types, package_size)
           > Cardinality(Counted(package_size, num_types)) * Power(num_types, n2)

\* C12 (amended): for every num_types >= 2 and package_size >= num_types,
\* every larger package size has a strictly greater expected estimate; for
\* num_types = 1 the expected estimate is 1 for every package size >= 1, so
\* it does not increase.
C12_MonotoneFromTwoTypes ==
  /\ (TrialDone /\ num_types >= 2 /\ package_size >= num_types)
       => \A n2 \in (package_size + 1) .. (MaxSize + 1) :
            Cardinality(Counted(n2, num_types)) * Power(num_types, package_size)
              > Cardinality(Counted(package_size, num_types)) * Power(num_types, n2)
  /\ (TrialDone /\ num_types = 1 /\ package_size >= 1)
       => \A n2 \in package_size .. (MaxSize + 1) :
            Cardinality(Counted(n2, 1)) = Power(1, n2)

C12_Witness ==
  /\ TrialDone
  /\ num_types >= 2
  /\ package_size > num_types
  /\ result.num >= 1

InTrial ==
  pc \in {"gs_loop", "pkg_loop", "gs_reduce", "rst_count", "rst_divide",
          "rst_print", "rst_return"}

\* C13: execution is strictly sequential.  While a package is drawn, every
\* earlier package of the batch has been drawn in full and reduced (the
\* draws so far are exactly those of the reduced packages plus the ones of
\* the current package); the match count exists only once all num_samples
\* samples of the trial are reduced; a trial runs only after every earlier
\* trial has returned its estimate and run_trials has collected it.
C13_Sequential ==
  /\ pc \in {"pkg_loop", "gs_reduce"}
       => /\ Len(samples) < num_samples
          /\ draws = ((calls - 1) * num_samples + Len(samples)) * package_size
                       + Len(package)
  /\ (num_packages_with_all_types # 0 - 1 \/ estimated_probability # NoEstimate)
       => /\ Len(samples) = num_samples
          /\ pc \in {"rst_divide", "rst_print", "rst_return", "raised"}
  /\ InTrial
       => /\ calls = Len(trial_log) + 1
          /\ entry = "run_trials" => (i = Len(trial_log) /\ Len(estimates) = i)
  /\ pc = "rst_call"
       => /\ calls = Len(trial_log)
          /\ entry = "run_trials" => (i = calls /\ Len(estimates) = i)

C13_Witness ==
  /\ entry = "run_trials"
  /\ pc = "pkg_loop"
  /\ calls = 2
  /\ Len(samples) = 1
  /\ Len(package) = 1
  /\ package_size >= 2

\* C14: trials share no mutable state.  The estimate list is append-only:
\* a step never changes the estimates already collected, and the list
\* grows, by exactly one element, exactly when a trial's estimate is
\* appended, so it always is the estimates the trials returned so far.  A
\* trial starts with no package, no samples and no count of an earlier
\* trial, and counts exactly its own num_samples samples.
C14_NoSharedState ==
  /\ [][/\ SubSeq(estimates', 1, Len(estimates)) = estimates
        /\ Len(estimates') \in {Len(estimates), Len(estimates) + 1}
        /\ (Len(estimates') = Len(estimates) + 1) <=> (pc = "rt_append")]_vars
  /\ [](entry = "run_trials"
          => /\ Len(estimates) <= Len(trial_log)
             /\ estimates = SubSeq(trial_log, 1, Len(estimates)))
  /\ [](pc = "rst_call"
          => /\ samples = <<>>
             /\ package = <<>>
             /\ num_packages_with_all_types = 0 - 1
             /\ estimated_probability = NoEstimate)
  /\ [](pc = "rst_count" => Len(samples) = num_samples)

C14_Witness ==
  /\ entry = "run_trials"
  /\ pc = "rst_return"
  /\ calls = 2
  /\ Len(estimates) = 1
  /\ estimated_probability # estimates[1]

SummaryKinds == <<"header", "list", "mean", "time">>

\* C15: run_trials prints nothing but its summary, whose lines come in the
\* order 'Results for n=<n>, m=<m>', list of estimates, mean, time, each
\* once; the first of them is printed only after all num_trials trials have
\* returned, the last before run_trials returns; no per-trial line is
\* printed.
C15_SummaryOnce ==
  entry = "run_trials" =>
    /\ Len(console) <= Len(SummaryKinds)
    /\ \A k \in 1 .. Len(console) : console[k][1] = SummaryKinds[k]
    /\ console # <<>>
         => /\ console[1] = <<"header", package_size, num_types>>
            /\ i = num_trials
            /\ calls = num_trials
            /\ Len(trial_log) = num_trials
            /\ Len(estimates) = num_trials
    /\ Len(console) >= 2 => Len(console[2][2]) = num_trials
    /\ pc = "done" => (Len(console) = Len(SummaryKinds) /\ ret = estimates)
    /\ pc # "done" => ret = <<>>

C15_Witness ==
  /\ entry = "run_trials"
  /\ pc = "done"
  /\ num_trials >= 2
  /\ Len(console) = 4
  /\ console[4][1] = "time"

\* The estimate as a function of the drawn values alone: the values are
\* cut into num_samples packages of package_size; print_results is no
\* argument of it.
EstimateOfDraws(log, s, n, m) ==
  [num |-> Cardinality({k \in 1 .. s :
                          HasAllTypes(SubSeq(log, (k - 1) * n + 1, k * n), m)}),
   den |-> s]

\* The exception as a function of the arguments other than print_results.
ErrorOfArgs(s, n, m) ==
  IF s >= 1 /\ n >= 1 /\ m = 0 THEN "ValueError"
  ELSE IF s = 0 THEN "ZeroDivisionError"
  ELSE "none"

\* C16: print_results affects console output only.  Whatever the flag, a
\* run_single_trial call that returns has consumed num_samples *
\* package_size draws and returns the estimate that those drawn values
\* determine, and a call that raises raises what the other arguments
\* determine; only the console differs (one line if the flag is set, none
\* if not).
C16_VerboseOnlyPrints ==
  /\ draws = Len(draw_log)
  /\ pc = "done"
       => /\ Len(draw_log) = num_samples * package_size
          /\ result = EstimateOfDraws(draw_log, num_samples, package_size, num_types)
          /\ Len(console) = (IF print_results THEN 1 ELSE 0)
  /\ pc = "raised"
       => /\ err = ErrorOfArgs(num_samples, package_size, num_types)
          /\ draw_log = <<>>
          /\ console = <<>>
  /\ pc \in {"done", "raised"} <=> (pc = "raised" \/ result # NoEstimate)
  /\ ErrorOfArgs(num_samples, package_size, num_types) # "none" => pc # "done"
  /\ ErrorOfArgs(num_samples, package_size, num_types) = "none" => pc # "raised"

C16_Witness ==
  /\ pc = "done"
  /\ ~print_results
  /\ console = <<>>
  /\ Len(draw_log) >= 4
  /\ result.num = 1
  /\ result.den = 2

\* C17: whenever 1 <= package_size < num_types, every sample is at most
\* package_size, so no package is counted and every estimate
\* run_single_trial computes or returns is 0/num_samples = 0.
C17_SmallPackageZero ==
  (1 <= package_size /\ package_size < num_types /\ entry # "get_num_unique")
    => /\ \A k \in 1 .. Len(samples) : samples[k] <= package_size
       /\ num_packages_with_all_types <= 0
       /\ \A e \in ({estimated_probability, result}
                      \cup {trial_log[k] : k \in 1 .. Len(trial_log)}) \ {NoEstimate} :
            e.num = 0 /\ e.den = num_samples /\ e.den >= 1

C17_Witness ==
  /\ package_size = 2
  /\ num_types = 3
  /\ num_samples >= 2
  /\ entry = "run_single_trial"
  /\ pc = "done"
  /\ result.num = 0

\* C18: run_trials with num_trials = 0 and the other arguments positive
\* runs no trial, prints the 'Results for' header and the empty list, then
\* raises StatisticsError from statistics.mean([]): no mean and no elapsed
\* time are printed and nothing is returned.
C18_EmptyBatch == entry = "run_trials" /\ num_trials = 0 /\ Positive

C18_EmptyBatchRaises ==
  /\ [](C18_EmptyBatch
          => /\ calls = 0
             /\ draws = 0
             /\ pc # "done"
             /\ ret = <<>>
             /\ Len(console) <= 2
             /\ Len(console) >= 1 => console[1] = <<"header", package_size, num_types>>
             /\ Len(console) >= 2 => console[2] = <<"list", <<>>>>
             /\ pc = "raised" => (err = "StatisticsError" /\ Len(console) = 2))
  /\ C18_EmptyBatch => <>(pc = "raised")

C18_Witness ==
  /\ C18_EmptyBatch
  /\ pc = "raised"
  /\ err = "StatisticsError"
  /\ Len(console) = 2

\* C19: a run_trials batch that returns has consumed exactly num_trials *
\* num_samples * package_size draws; a draw is consumed only by a step of
\* the package generator, one draw per element: the distinct-category
\* counter, the match count and the aggregation consume none.
C19_DrawCount ==
  /\ []((entry = "run_trials" /\ pc = "done")
          => draws = num_trials * num_samples * package_size)
  /\ []((pc = "gs_reduce") => draws = ((calls - 1) * num_samples + Len(samples) + 1) * package_size)
  /\ [][draws' # draws
          => /\ pc = "pkg_loop"
             /\ pc' = "pkg_loop"
             /\ draws' = draws + 1
             /\ Len(package') = Len(package) + 1]_vars

C19_Witness ==
  /\ entry = "run_trials"
  /\ pc = "done"
  /\ num_trials >= 2
  /\ num_samples >= 2
  /\ package_size >= 2
  /\ draws >= 8

====
